---------------------------- MODULE Spec2Model ----------------------------
(***************************************************************************)
(* A model of tag-kglw_BL.py: the text normaliser (clean_live_in,          *)
(* sanitize_filename), the track parser (parse_track_from_title), the      *)
(* resolver (get_track_info_from_tags_or_filename), the per-file step      *)
(* (tag_with_mutagen) and the orchestration in main.                       *)
(*                                                                         *)
(* A Python str is a sequence of one-character strings.  A mutagen tag     *)
(* value is a list of strings: << >> stands for "key not in audio".  An    *)
(* optional track number is << >> (None) or << n >>.                       *)
(***************************************************************************)
EXTENDS Integers, Sequences, FiniteSets, TLC

(***************************************************************************)
(* Characters.  Ascii lists the printable ASCII characters in code-point   *)
(* order, so that Ord gives the order Python compares str by ("GRAVE"      *)
(* stands for the backquote, which a TLA+ string cannot hold).             *)
(***************************************************************************)
Ascii ==
  << " ", "!", "\"", "#", "$", "%", "&", "'", "(", ")", "*", "+", ",", "-", ".", "/",
     "0", "1", "2", "3", "4", "5", "6", "7", "8", "9", ":", ";", "<", "=", ">", "?",
     "@", "A", "B", "C", "D", "E", "F", "G", "H", "I", "J", "K", "L", "M", "N", "O",
     "P", "Q", "R", "S", "T", "U", "V", "W", "X", "Y", "Z", "[", "\\", "]", "^", "_",
     "GRAVE", "a", "b", "c", "d", "e", "f", "g", "h", "i", "j", "k", "l", "m", "n", "o",
     "p", "q", "r", "s", "t", "u", "v", "w", "x", "y", "z", "{", "|", "}", "~" >>

Char == { Ascii[k] : k \in 1..Len(Ascii) }

OrdTable == [ c \in Char |-> 31 + (CHOOSE k \in 1..Len(Ascii) : Ascii[k] = c) ]

Ord(c) == OrdTable[c]

IsSpace(c) == c = " "

IsDigit(c) == Ord(c) >= 48 /\ Ord(c) <= 57

\* str.lower() on one character
LowerChar(c) == IF Ord(c) >= 65 /\ Ord(c) <= 90 THEN Ascii[Ord(c) + 32 - 31] ELSE c

\* str.lower()
Lower(s) == [ k \in 1..Len(s) |-> LowerChar(s[k]) ]

\* the number of characters of s from position i on that satisfy P, in a row
RECURSIVE SpaceRun(_, _)
SpaceRun(s, i) == IF i <= Len(s) /\ IsSpace(s[i]) THEN 1 + SpaceRun(s, i + 1) ELSE 0

RECURSIVE DigitRun(_, _)
DigitRun(s, i) == IF i <= Len(s) /\ IsDigit(s[i]) THEN 1 + DigitRun(s, i + 1) ELSE 0

RECURSIVE TrailingSpaces(_, _)
TrailingSpaces(s, i) == IF i >= 1 /\ IsSpace(s[i]) THEN 1 + TrailingSpaces(s, i - 1) ELSE 0

\* str.strip()
Strip(s) ==
  LET a == SpaceRun(s, 1)
  IN  IF a = Len(s) THEN << >>
      ELSE SubSeq(s, a + 1, Len(s) - TrailingSpaces(s, Len(s)))

\* whether pat occurs in s at position i
OccursAt(s, pat, i) ==
  /\ i >= 1
  /\ i + Len(pat) - 1 <= Len(s)
  /\ \A k \in 1..Len(pat) : s[i + k - 1] = pat[k]

\* int(digits)
RECURSIVE ToInt(_)
ToInt(ds) ==
  IF ds = << >> THEN 0
  ELSE 10 * ToInt(SubSeq(ds, 1, Len(ds) - 1)) + (Ord(ds[Len(ds)]) - 48)

\* str(n) for n >= 0
RECURSIVE ToStr(_)
ToStr(n) ==
  LET d == << Ascii[(n % 10) + 48 - 31] >>
  IN  IF n < 10 THEN d ELSE ToStr(n \div 10) \o d

\* f"{n:02d}"
Fmt02d(n) == IF n < 10 THEN << "0" >> \o ToStr(n) ELSE ToStr(n)

(***************************************************************************)
(* Text normaliser                                                         *)
(***************************************************************************)
LiveInLiteral == << "(", "l", "i", "v", "e", " ", "i", "n" >>

\* LIVE_IN_REGEX.match at position i: the position of the match's last
\* character, or 0 when the pattern does not match there.  \s* is greedy and
\* what follows it is "(", so giving back a space never helps; .*? stops at
\* the first ")".
LiveInMatchEnd(s, i) ==
  LET j == i + SpaceRun(s, i)
      closers == { p \in (j + Len(LiveInLiteral))..Len(s) : s[p] = ")" }
  IN  IF OccursAt(Lower(s), LiveInLiteral, j) /\ closers # {}
      THEN CHOOSE p \in closers : \A q \in closers : p <= q
      ELSE 0

\* LIVE_IN_REGEX.sub("", s), from position i on: every non-overlapping match,
\* leftmost first
RECURSIVE LiveInSub(_, _)
LiveInSub(s, i) ==
  IF i > Len(s) THEN << >>
  ELSE LET e == LiveInMatchEnd(s, i)
       IN  IF e = 0 THEN << s[i] >> \o LiveInSub(s, i + 1)
           ELSE LiveInSub(s, e + 1)

clean_live_in(text) ==
  IF text = << >> THEN text ELSE Strip(LiveInSub(text, 1))

ForbiddenChars == { "\\", "/", ":", "*", "?", "\"", "<", ">", "|" }

sanitize_filename(name) ==
  [ k \in 1..Len(name) |-> IF name[k] \in ForbiddenChars THEN "_" ELSE name[k] ]

(***************************************************************************)
(* Track parser.  A result is [no |-> << >> or << n >>, title |-> str].    *)
(***************************************************************************)
None == << >>

NoMatch == [matched |-> FALSE, num |-> << >>, rest |-> << >>]

\* ^\s*(\d+)\s+(.+)$ against s, which line 48 has stripped, with d the length
\* of the leading digit run and w that of the space run after it.  Both are
\* greedy and maximal (a shorter digit run is followed by a digit, which \s+
\* refuses), and (.+) takes what is left, which is not empty because s does
\* not end in a space.
DigitsSpaceAt(s, d, w) ==
  IF d >= 1 /\ w >= 1 /\ d + w < Len(s)
  THEN [matched |-> TRUE, num |-> SubSeq(s, 1, d), rest |-> SubSeq(s, d + w + 1, Len(s))]
  ELSE NoMatch

DigitsSpaceFrom(s, d) == DigitsSpaceAt(s, d, SpaceRun(s, d + 1))

MatchDigitsSpace(s) == DigitsSpaceFrom(s, DigitRun(s, 1))

\* ^\s*(\d+)\s*[-.\s]\s*(.+)$ against the stripped s, with d the length of the
\* digit run, w1 that of the space run after it, p the position after both
\* and w2 the length of the space run after p.  The class [-.\s] takes a
\* hyphen or a dot at p; when the character at p is neither (or nothing would
\* be left for (.+)), \s* gives back its last space to the class and (.+)
\* takes everything from p on.
DigitsSepAt(s, d, w1, p, w2) ==
  IF d = 0 THEN NoMatch
  ELSE IF p <= Len(s) /\ s[p] \in {"-", "."} /\ p + w2 < Len(s)
  THEN [matched |-> TRUE, num |-> SubSeq(s, 1, d), rest |-> SubSeq(s, p + w2 + 1, Len(s))]
  ELSE IF w1 >= 1 /\ p <= Len(s)
  THEN [matched |-> TRUE, num |-> SubSeq(s, 1, d), rest |-> SubSeq(s, p, Len(s))]
  ELSE NoMatch

DigitsSepAfter(s, d, w1) == DigitsSepAt(s, d, w1, d + w1 + 1, SpaceRun(s, d + w1 + 2))

DigitsSepFrom(s, d) == DigitsSepAfter(s, d, SpaceRun(s, d + 1))

MatchDigitsSep(s) == DigitsSepFrom(s, DigitRun(s, 1))

\* a parser that returns the empty title when no pattern matches
ParseMatchesOrEmpty(s, m1, m2) ==
  IF m1.matched THEN [no |-> << ToInt(m1.num) >>, title |-> Strip(m1.rest)]
  ELSE IF m2.matched THEN [no |-> << ToInt(m2.num) >>, title |-> Strip(m2.rest)]
  ELSE [no |-> None, title |-> << >>]

\* lines 51-60: the first pattern that matches wins
ParseMatches(s, m1, m2) ==
  IF m1.matched THEN [no |-> << ToInt(m1.num) >>, title |-> Strip(m1.rest)]
  ELSE IF m2.matched THEN [no |-> << ToInt(m2.num) >>, title |-> Strip(m2.rest)]
  ELSE [no |-> None, title |-> s]

ParseStripped(s) == ParseMatches(s, MatchDigitsSpace(s), MatchDigitsSep(s))

parse_track_from_title(track_title) ==
  IF track_title = << >> THEN [no |-> None, title |-> << >>]
  ELSE ParseStripped(Strip(track_title))

(***************************************************************************)
(* pathlib: PurePath.suffix and PurePath.stem of a file name               *)
(***************************************************************************)
LastDot(name) ==
  LET dots == { k \in 1..Len(name) : name[k] = "." }
  IN  IF dots = {} THEN 0 ELSE CHOOSE k \in dots : \A q \in dots : q <= k

HasSuffix(name) == LastDot(name) > 1 /\ LastDot(name) < Len(name)

Suffix(name) == IF HasSuffix(name) THEN SubSeq(name, LastDot(name), Len(name)) ELSE << >>

Stem(name) == IF HasSuffix(name) THEN SubSeq(name, 1, LastDot(name) - 1) ELSE name

(***************************************************************************)
(* Resolver                                                                *)
(***************************************************************************)
DashSep == << " ", "-", " " >>

\* stem_clean.rsplit(" - ", 1)[-1]: what follows the last " - "
AfterLastDash(s) ==
  LET at == { k \in 1..Len(s) : OccursAt(s, DashSep, k) }
      k0 == CHOOSE k \in at : \A q \in at : q <= k
  IN  SubSeq(s, k0 + Len(DashSep), Len(s))

ContainsDash(s) == \E k \in 1..Len(s) : OccursAt(s, DashSep, k)

\* lines 149-156: the first of "title", "tracktitle" that is in audio with a
\* non-empty list gives title_tag (which may be the empty string)
ReadTitleTag(audio) ==
  IF audio.title # << >> THEN audio.title[1]
  ELSE IF audio.tracktitle # << >> THEN audio.tracktitle[1]
  ELSE << >>

\* lines 158-159
TitleSource(tag, name) == IF tag = << >> THEN Stem(name) ELSE tag

\* lines 169-173
FallbackOr(first, fn) == IF fn.no # None THEN fn ELSE first

\* a resolver without the filename fallback
ResolveWithoutFallback(first, stem_clean) == first

\* lines 165-173
ResolveParsed(first, stem_clean) ==
  IF first.no = None /\ ContainsDash(stem_clean)
  THEN FallbackOr(first, parse_track_from_title(AfterLastDash(stem_clean)))
  ELSE first

get_track_info_from_tags_or_filename(name, audio) ==
  ResolveParsed(parse_track_from_title(clean_live_in(TitleSource(ReadTitleTag(audio), name))),
                clean_live_in(Stem(name)))

(***************************************************************************)
(* Program constants                                                       *)
(***************************************************************************)
ARTIST_NAME == << "K", "i", "n", "g", " ", "G", "i", "z", "z", "a", "r", "d", " ", "&", " ", "T", "h", "e", " ", "L", "i", "z", "a", "r", "d", " ", "W", "i", "z", "a", "r", "d" >>

AUDIO_EXTS ==
  { << ".", "f", "l", "a", "c" >>, << ".", "m", "p", "3" >>, << ".", "m", "4", "a" >>, << ".", "o", "g", "g" >>,
    << ".", "w", "a", "v" >>, << ".", "w", "v" >>, << ".", "a", "i", "f", "f" >>, << ".", "a", "i", "f" >> }

GenreValue == << "P", "s", "y", "c", "h", "e", "d", "e", "l", "i", "c", " ", "R", "o", "c", "k", "\\", "\\", "J", "a", "m", " ", "B", "a", "n", "d" >>

ReleaseTypeValue == << "a", "l", "b", "u", "m", ";", "l", "i", "v", "e" >>

BootleggerSuffix == << " ", "(", "B", "o", "o", "t", "l", "e", "g", "g", "e", "r", ")" >>

UnknownTitle == << "U", "n", "k", "n", "o", "w", "n" >>

FlacExt == << ".", "f", "l", "a", "c" >>

(***************************************************************************)
(* The file system.  A directory is a function from entry names to         *)
(* entries; an entry is a sub-directory or a file with its tags and with   *)
(* what mutagen makes of it:                                               *)
(*   "ok"            loads and saves;                                      *)
(*   "unknown_type"  mutagen.File finds no type for it and returns None,   *)
(*                   FLAC() raises;                                        *)
(*   "corrupt"       loading raises (MutagenError);                        *)
(*   "write_error"   loads, but setting a tag or save() raises.            *)
(***************************************************************************)
NoTags ==
  [ title |-> << >>, tracktitle |-> << >>, tracknumber |-> << >>, album |-> << >>,
    artist |-> << >>, albumartist |-> << >>, genre |-> << >>, discnumber |-> << >>,
    date |-> << >>, year |-> << >>, releasetype |-> << >> ]

\* os.rename(old, new) inside one directory: new, if it exists, is replaced
Rename(dir, old, new) ==
  [ n \in (DOMAIN dir \ {old}) \cup {new} |-> IF n = new THEN dir[old] ELSE dir[n] ]

\* load_audio: "FLAC", "Easy" (an easy=True file), "None", or "raise"
load_audio(name, file) ==
  IF Lower(Suffix(name)) = FlacExt
  THEN IF file.io \in {"unknown_type", "corrupt"} THEN "raise" ELSE "FLAC"
  ELSE IF file.io = "corrupt" THEN "raise"
  ELSE IF file.io = "unknown_type" THEN "None"
  ELSE "Easy"

\* lines 195-228: the controlled fields are cleared, then set
WriteTags(tags, kind, info, album, disc_date, disc_number) ==
  [ tracktitle  |-> tags.tracktitle,
    album       |-> << album >>,
    artist      |-> << ARTIST_NAME >>,
    albumartist |-> << ARTIST_NAME >>,
    genre       |-> << GenreValue >>,
    discnumber  |-> << ToStr(disc_number) >>,
    date        |-> << disc_date >>,
    year        |-> << disc_date >>,
    releasetype |-> IF kind = "FLAC" THEN << ReleaseTypeValue >> ELSE << >>,
    title       |-> IF info.title # << >> THEN << info.title >> ELSE << >>,
    tracknumber |-> IF info.no # None THEN << ToStr(info.no[1]) >> ELSE << >> ]

\* lines 233-239
NewBase(no, safe_title) ==
  IF no # None THEN Fmt02d(no[1]) \o << " " >> \o safe_title ELSE safe_title

NewName(name, info) ==
  NewBase(info.no, sanitize_filename(IF info.title # << >> THEN info.title ELSE UnknownTitle))
    \o Lower(Suffix(name))

\* a rename that does not look whether the target exists
MayRenameFileUnchecked(dir, name, new_name) == new_name # name

\* line 242
MayRenameFile(dir, name, new_name) == new_name \notin DOMAIN dir /\ new_name # name

\* what a tag_with_mutagen call that changes nothing reports
Untouched(dir, name, end) ==
  [dir |-> dir, end |-> end, name |-> name, target |-> name,
   saves |-> 0, renames |-> 0, clobbered |-> FALSE, kept |-> FALSE]

\* lines 230-246: audio.save(), then the rename unless the target is taken
SaveAndRename(saved, name, new_name) ==
  IF MayRenameFile(saved, name, new_name)
  THEN [dir |-> Rename(saved, name, new_name), end |-> "tagged", name |-> new_name,
        target |-> new_name, saves |-> 1, renames |-> 1,
        clobbered |-> new_name \in DOMAIN saved, kept |-> FALSE]
  ELSE [dir |-> saved, end |-> "tagged", name |-> name, target |-> new_name,
        saves |-> 1, renames |-> 0, clobbered |-> FALSE, kept |-> new_name # name]

\* lines 188-246, with the resolver's answer info
TagResolved(dir, name, kind, info, album, disc_date, disc_number) ==
  IF dir[name].io = "write_error" THEN Untouched(dir, name, "save_error")
  ELSE SaveAndRename(
         [dir EXCEPT ![name].tags =
            WriteTags(dir[name].tags, kind, info, album, disc_date, disc_number)],
         name, NewName(name, info))

\* lines 183-246, with what load_audio gave
TagLoaded(dir, name, kind, album, disc_date, disc_number) ==
  IF kind = "raise" THEN Untouched(dir, name, "load_error")
  ELSE IF kind = "None" THEN Untouched(dir, name, "unreadable")
  ELSE TagResolved(dir, name, kind, get_track_info_from_tags_or_filename(name, dir[name].tags),
                   album, disc_date, disc_number)

\* tag_with_mutagen(path, album, disc_date, disc_number) on the directory dir:
\* the directory it leaves, how it ended, and what it did
tag_with_mutagen(dir, name, album, disc_date, disc_number) ==
  IF Lower(Suffix(name)) \notin AUDIO_EXTS THEN Untouched(dir, name, "skipped")
  ELSE TagLoaded(dir, name, load_audio(name, dir[name]), album, disc_date, disc_number)

(***************************************************************************)
(* main                                                                    *)
(***************************************************************************)
VARIABLES
  pc,                 \* where main is
  SETLISTFM_API_KEY,  \* the key hardcoded in the script: "" as shipped, or set
  argv_dates,         \* sys.argv[2:]
  folder,             \* the name of the folder (sys.argv[1]) in its parent
  parent,             \* the names of the entries of the folder's parent
  fs,                 \* the folder: entry name -> entry
  date_list, locations, setlists_per_date, album_name,
  confirm,            \* the normalised answer to the prompt
  files, cumulative,  \* the sorted listing and the cumulative track counts
  i,                  \* how many files of the listing the loop has handled
  err,                \* the exception that ended the run
  last,               \* what the latest tag_with_mutagen call did
  ops,                \* audio.save() and rename calls made so far
  fs0, parent0        \* the folder and its parent as the run found them

\* the single-file experiments: a text cleaned repeatedly, a resolver call,
\* and the per-file step applied again to the file it left
VARIABLES
  texts,              \* T, clean_live_in(T), clean_live_in(clean_live_in(T))
  src, via, resolved, \* the resolver's input, which source carries it, its result
  path,               \* the name the file under test has now
  applied, first_run  \* calls made so far, and what the first tag_with_mutagen left

mainVars ==
  << pc, SETLISTFM_API_KEY, argv_dates, folder, parent, fs, date_list, locations,
     setlists_per_date, album_name, confirm, files, cumulative, i, err, last, ops,
     fs0, parent0 >>

unitVars == << texts, src, via, resolved, path, applied, first_run >>

vars == << mainVars, unitVars >>

\* Python's str comparison: by code point, a proper prefix first
RECURSIVE StrLess(_, _)
StrLess(a, b) ==
  IF b = << >> THEN FALSE
  ELSE IF a = << >> THEN TRUE
  ELSE IF a[1] # b[1] THEN Ord(a[1]) < Ord(b[1])
  ELSE StrLess(Tail(a), Tail(b))

\* sorted(names)
RECURSIVE Sorted(_)
Sorted(names) ==
  IF names = {} THEN << >>
  ELSE LET m == CHOOSE x \in names : \A y \in names \ {x} : StrLess(x, y)
       IN  << m >> \o Sorted(names \ {m})

\* len(date_iso.split("-"))
SplitCount(date_iso) == 1 + Cardinality({ k \in 1..Len(date_iso) : date_iso[k] = "-" })

\* a date check that accepts any number of parts
DateUnpacksLoosely(date_iso) == SplitCount(date_iso) >= 1

\* lines 74-78: unpacking the split into y, m, d raises ValueError unless
\* there are exactly three parts
DateUnpacks(date_iso) == SplitCount(date_iso) = 3

\* fetch_album_name_and_setlist(date_iso) when Setlist.fm answers resp
fetch_album_name_and_setlist(key, date_iso, resp) ==
  IF key = << >> THEN [raised |-> "RuntimeError: api key"]
  ELSE IF ~DateUnpacks(date_iso) THEN [raised |-> "ValueError: date"]
  ELSE IF resp.status # "200" THEN [raised |-> "RuntimeError: api error"]
  ELSE IF resp.setlist = << >> THEN [raised |-> "RuntimeError: no setlist"]
  ELSE [raised |-> "", location |-> resp.setlist[1].location,
        songs |-> resp.setlist[1].songs]

\* line 277
AlbumName(first_date, first_location) ==
  first_date \o << " " >> \o first_location \o BootleggerSuffix

\* a prompt that goes on unless the answer is "n"
ProceedsUnlessNo(answer) == Lower(Strip(answer)) # << "n" >>

\* lines 298-300
Proceeds(answer) == Lower(Strip(answer)) = << "y" >>

\* lines 310-313
RECURSIVE AllZero(_)
AllZero(counts) == counts = << >> \/ (Head(counts) = 0 /\ AllZero(Tail(counts)))

TrackCounts(setlists, nfiles) ==
  LET counts == [ k \in 1..Len(setlists) |-> Len(setlists[k]) ]
  IN  IF AllZero(counts)
      THEN [ k \in 1..Len(setlists) |-> IF k = 1 THEN nfiles ELSE 0 ]
      ELSE counts

\* lines 315-319
RECURSIVE Cumulative(_, _)
Cumulative(counts, running) ==
  IF counts = << >> THEN << >>
  ELSE << running + Head(counts) >> \o Cumulative(Tail(counts), running + Head(counts))

\* lines 321-329, 0-based like the code: the first boundary above idx
RECURSIVE DiscFrom(_, _, _, _)
DiscFrom(cum, idx, disc_idx, ndates) ==
  IF disc_idx >= Len(cum) THEN ndates - 1
  ELSE IF idx < cum[disc_idx + 1] THEN disc_idx
  ELSE DiscFrom(cum, idx, disc_idx + 1, ndates)

\* boundaries compared with <= instead of <
RECURSIVE DiscFromInclusive(_, _, _, _)
DiscFromInclusive(cum, idx, disc_idx, ndates) ==
  IF disc_idx >= Len(cum) THEN ndates - 1
  ELSE IF idx <= cum[disc_idx + 1] THEN disc_idx
  ELSE DiscFromInclusive(cum, idx, disc_idx + 1, ndates)

get_disc_inclusive(cum, idx, ndates) == DiscFromInclusive(cum, idx, 0, ndates)

get_disc_for_index(cum, idx, ndates) == DiscFrom(cum, idx, 0, ndates)

NoCall ==
  [ idx |-> 0, path |-> << >>, disc_number |-> 0, disc_date |-> << >>, end |-> "none",
    name |-> << >>, target |-> << >>, clobbered |-> FALSE, kept |-> FALSE ]

\* lines 251-264
Start ==
  /\ pc = "start"
  /\ date_list' = [ k \in 1..Len(argv_dates) |-> Strip(argv_dates[k]) ]
  /\ pc' = IF Len(argv_dates) = 0 THEN "usage"
           ELSE IF folder \notin parent THEN "no_folder"
           ELSE "fetch"
  /\ UNCHANGED << SETLISTFM_API_KEY, argv_dates, folder, parent, fs, locations,
                  setlists_per_date, album_name, confirm, files, cumulative, i, err,
                  last, ops, fs0, parent0, unitVars >>

(***************************************************************************)
(* What main is run on: bounded sets of arguments, API answers, prompt     *)
(* answers and folders.                                                    *)
(***************************************************************************)
MaxDates == 2

MaxSetlist == 2

MaxFiles == 2

DateArgs == { << "2", "0", "2", "5", "-", "1", "0", "-", "2", "4" >>, << " ", "2", "0", "2", "5", "-", "1", "0", "-", "2", "5" >>, << "2", "0", "2", "5", "/", "1", "0", "/", "2", "4" >> }

Locations == { << "O", "2", "/", "A", "r", "e", "n", "a" >> }

Song == << "R", "a", "t", "t", "l", "e", "s", "n", "a", "k", "e" >>

\* what requests.get gives back, reduced to what lines 96-133 read of it:
\* the status and, for each setlist found, its joined location and its songs
Responses ==
  { [status |-> "500", setlist |-> << >>], [status |-> "200", setlist |-> << >>] }
  \cup { [status |-> "200", setlist |-> << [location |-> loc, songs |-> [k \in 1..n |-> Song]] >>] :
           loc \in Locations, n \in 0..MaxSetlist }

Answers == { << "y" >>, << " ", "Y", " " >>, << "n" >>, << "y", "e", "s" >>, << >> }

FolderName == << "s", "h", "o", "w" >>

\* the folder a run for the first date would create
TakenAlbum == sanitize_filename(AlbumName(<< "2", "0", "2", "5", "-", "1", "0", "-", "2", "4" >>, << "O", "2", "/", "A", "r", "e", "n", "a" >>))

AudioFile(title, io) ==
  [ kind |-> "file", io |-> io, tags |-> [NoTags EXCEPT !.title = title] ]

SubDir == [ kind |-> "dir", io |-> "ok", tags |-> NoTags ]

\* the entries a folder is drawn from: name and entry
EntryPool ==
  { << << "a", ".", "f", "l", "a", "c" >>, AudioFile(<< << "0", "7", " ", "E", "x", "t" >> >>, "ok") >>,
    << << "b", ".", "F", "L", "A", "C" >>, AudioFile(<< << "0", "7", " ", "E", "x", "t" >> >>, "ok") >>,
    << << "x", " ", "-", " ", "0", "3", " ", "I", "n", ".", "m", "p", "3" >>, AudioFile(<< >>, "ok") >>,
    << << "d", ".", "f", "l", "a", "c" >>, AudioFile(<< << "0", "8", " ", "A", "/", "B" >> >>, "write_error") >>,
    << << "b", "a", "d", ".", "f", "l", "a", "c" >>, AudioFile(<< >>, "corrupt") >>,
    << << "e", ".", "o", "g", "g" >>, AudioFile(<< >>, "unknown_type") >>,
    << << "c", "o", "v", "e", "r", ".", "j", "p", "g" >>, AudioFile(<< >>, "unknown_type") >>,
    << << "0", "7", " ", "E", "x", "t", ".", "f", "l", "a", "c" >>, SubDir >> }

Folders ==
  { [ n \in { e[1] : e \in es } |-> (CHOOSE e \in es : e[1] = n)[2] ] :
      es \in { x \in SUBSET EntryPool :
                 /\ Cardinality(x) <= MaxFiles
                 /\ \A a, b \in x : a[1] = b[1] => a = b } }

\* what a tag_with_mutagen call left of the file: its name and two of its tags
NoLeft == [end |-> "none", name |-> << >>, title |-> << >>, tracknumber |-> << >>]

UnitIdle ==
  /\ texts = << >>
  /\ src = << >>
  /\ via = "none"
  /\ resolved = [no |-> None, title |-> << >>]
  /\ path = << >>
  /\ applied = 0
  /\ first_run = NoLeft

Init ==
  /\ pc = "start"
  /\ SETLISTFM_API_KEY \in { << >>, << "k" >> }
  /\ argv_dates \in UNION { [1..n -> DateArgs] : n \in 0..MaxDates }
  /\ folder = FolderName
  /\ parent \in { {}, {FolderName}, {FolderName, TakenAlbum} }
  /\ fs \in Folders
  /\ date_list = << >>
  /\ locations = << >>
  /\ setlists_per_date = << >>
  /\ album_name = << >>
  /\ confirm = << >>
  /\ files = << >>
  /\ cumulative = << >>
  /\ i = 0
  /\ err = ""
  /\ last = NoCall
  /\ ops = 0
  /\ fs0 = fs
  /\ parent0 = parent
  /\ UnitIdle

\* lines 266-277: one fetch of the loop, and the album name after the last
Fetch ==
  /\ pc = "fetch"
  /\ \E resp \in Responses :
       LET d == date_list[Len(locations) + 1]
           r == fetch_album_name_and_setlist(SETLISTFM_API_KEY, d, resp)
           locs == Append(locations, r.location)
       IN  IF r.raised # ""
           THEN /\ pc' = "crashed"
                /\ err' = r.raised
                /\ UNCHANGED << locations, setlists_per_date, album_name >>
           ELSE /\ locations' = locs
                /\ setlists_per_date' = Append(setlists_per_date, r.songs)
                /\ err' = err
                /\ IF Len(locs) = Len(date_list)
                   THEN /\ pc' = "confirm"
                        /\ album_name' = AlbumName(date_list[1], locs[1])
                   ELSE /\ pc' = "fetch"
                        /\ album_name' = album_name
  /\ UNCHANGED << SETLISTFM_API_KEY, argv_dates, folder, parent, fs, date_list, confirm,
                  files, cumulative, i, last, ops, fs0, parent0, unitVars >>

\* lines 298-319: the prompt, and on "y" the listing and the boundaries
Confirm ==
  /\ pc = "confirm"
  /\ \E answer \in Answers :
       /\ confirm' = Lower(Strip(answer))
       /\ IF Proceeds(answer)
          THEN LET listing == Sorted({ n \in DOMAIN fs : fs[n].kind = "file" })
               IN  /\ pc' = "loop"
                   /\ files' = listing
                   /\ cumulative' = Cumulative(TrackCounts(setlists_per_date, Len(listing)), 0)
          ELSE /\ pc' = "aborted"
               /\ UNCHANGED << files, cumulative >>
  /\ UNCHANGED << SETLISTFM_API_KEY, argv_dates, folder, parent, fs, date_list, locations,
                  setlists_per_date, album_name, i, err, last, ops, fs0, parent0, unitVars >>

\* lines 332-336: one turn of the file loop, r being what tag_with_mutagen did
TagFileWith(disc_number, disc_date, r) ==
  /\ last' = [ idx |-> i, path |-> files[i + 1], disc_number |-> disc_number,
               disc_date |-> disc_date, end |-> r.end, name |-> r.name,
               target |-> r.target, clobbered |-> r.clobbered, kept |-> r.kept ]
  /\ fs' = r.dir
  /\ ops' = ops + r.saves + r.renames
  /\ IF r.end \in {"load_error", "save_error"}
     THEN /\ pc' = "crashed"
          /\ err' = r.end
          /\ i' = i
     ELSE /\ pc' = pc
          /\ err' = err
          /\ i' = i + 1

TagFileOn(disc_idx) ==
  TagFileWith(disc_idx + 1, date_list[disc_idx + 1],
              tag_with_mutagen(fs, files[i + 1], album_name, date_list[disc_idx + 1],
                               disc_idx + 1))

TagFile ==
  /\ pc = "loop"
  /\ i < Len(files)
  /\ TagFileOn(get_disc_for_index(cumulative, i, Len(date_list)))
  /\ UNCHANGED << SETLISTFM_API_KEY, argv_dates, folder, parent, date_list, locations,
                  setlists_per_date, album_name, confirm, files, cumulative, fs0, parent0,
                  unitVars >>

\* line 342
MayRenameFolder(entries, new_folder) == new_folder \notin entries

\* lines 339-349
RenameFolder ==
  /\ pc = "loop"
  /\ i = Len(files)
  /\ LET safe_folder_name == sanitize_filename(album_name)
     IN  IF MayRenameFolder(parent, safe_folder_name)
         THEN /\ parent' = (parent \ {folder}) \cup {safe_folder_name}
              /\ folder' = safe_folder_name
              /\ ops' = ops + 1
         ELSE UNCHANGED << parent, folder, ops >>
  /\ pc' = "done"
  /\ UNCHANGED << SETLISTFM_API_KEY, argv_dates, fs, date_list, locations,
                  setlists_per_date, album_name, confirm, files, cumulative, i, err, last,
                  fs0, parent0, unitVars >>

Next == Start \/ Fetch \/ Confirm \/ TagFile \/ RenameFolder

Spec == Init /\ [][Next]_vars

(***************************************************************************)
(* The functions on their own.  Each experiment leaves main where it is.   *)
(***************************************************************************)
MainIdle ==
  /\ pc = "idle"
  /\ SETLISTFM_API_KEY = << >>
  /\ argv_dates = << >>
  /\ folder = FolderName
  /\ parent = {FolderName}
  /\ fs \in {<< >>}
  /\ date_list = << >>
  /\ locations = << >>
  /\ setlists_per_date = << >>
  /\ album_name = << >>
  /\ confirm = << >>
  /\ files = << >>
  /\ cumulative = << >>
  /\ i = 0
  /\ err = ""
  /\ last = NoCall
  /\ ops = 0
  /\ fs0 = fs
  /\ parent0 = parent

MaxFrags == 3

MaxSepLen == 3

\* pieces of titles with "(Live in ...)" parentheticals, whole and broken
CleanFrags ==
  { << "(", "L", "i", "v", "e" >>, << " ", "(", "L", "i", "v", "e", " ", "i", "n", " ", "a", ")" >>, << " ", "i", "n", " ", "b", ")" >>, << "E", "x", "t" >>, << " ", "(", "l", "i", "v", "e", " ", "I", "N", " ", "c" >> }

RECURSIVE Concat(_)
Concat(ss) == IF ss = << >> THEN << >> ELSE Head(ss) \o Concat(Tail(ss))

CleanInputs == { Concat(fr) : fr \in UNION { [1..n -> CleanFrags] : n \in 0..MaxFrags } }

InitClean ==
  /\ MainIdle
  /\ texts \in { << t >> : t \in CleanInputs }
  /\ src = << >>
  /\ via = "none"
  /\ resolved = [no |-> None, title |-> << >>]
  /\ path = << >>
  /\ applied = 0
  /\ first_run = NoLeft

\* clean_live_in applied to what the previous application returned
CleanAgain ==
  /\ Len(texts) < 3
  /\ texts' = Append(texts, clean_live_in(texts[Len(texts)]))
  /\ UNCHANGED << mainVars, src, via, resolved, path, applied, first_run >>

SpecClean == InitClean /\ [][CleanAgain]_vars

\* source texts: a digit run, a run of separator characters, a remainder
DigitTokens == { << >>, << "7" >>, << "0", "7" >>, << "1", "9", "9", "9" >> }

SepChars == { " ", "-", "." }

SepRuns == UNION { [1..n -> SepChars] : n \in 0..MaxSepLen }

Rests == { << >>, << "E", "x", "t" >>, << "I", "n", " ", "(", "L", "i", "v", "e", " ", "i", "n", " ", "B", ")" >>, << "S", "e", "t", "1", " ", "-", " ", "0", "7", " ", "E", "x", "t" >> }

OtherStems == { << "r", "a", "n", "d", "o", "m", "_", "n", "a", "m", "e" >>, << "S", "e", "t", "1", " ", "-", " ", "0", "7", " ", "E", "x", "t" >>, << "0", "3", " ", "I", "n" >> }

SourceTexts ==
  { [digits |-> d, sep |-> p, rest |-> r] : d \in DigitTokens, p \in SepRuns, r \in Rests }

TextOf(x) == x.digits \o x.sep \o x.rest

\* the file the resolver is called on: the text is its title tag ("tag"), or
\* its stem with no title tag ("stem") or an empty one ("stem_empty_tag")
InputName(x, how, other) == (IF how = "tag" THEN other ELSE TextOf(x)) \o FlacExt

InputTags(x, how) ==
  [NoTags EXCEPT !.title = IF how = "tag" THEN << TextOf(x) >>
                           ELSE IF how = "stem" THEN << >>
                           ELSE << << >> >>]

InitResolve ==
  /\ MainIdle
  /\ texts = << >>
  /\ src \in SourceTexts
  /\ via \in {"tag", "stem", "stem_empty_tag"}
  /\ via # "tag" => TextOf(src) # << >>
  /\ path \in IF via = "tag" THEN { InputName(src, via, o) : o \in OtherStems }
              ELSE { InputName(src, via, << >>) }
  /\ resolved = [no |-> None, title |-> << >>]
  /\ applied = 0
  /\ first_run = NoLeft

ResolveCall ==
  /\ applied = 0
  /\ resolved' = get_track_info_from_tags_or_filename(path, InputTags(src, via))
  /\ applied' = 1
  /\ UNCHANGED << mainVars, texts, src, via, path, first_run >>

SpecResolve == InitResolve /\ [][ResolveCall]_vars

\* the per-file step applied to a file, and again to the file it left, with
\* the same album, date and disc
RerunAlbum == AlbumName(<< "2", "0", "2", "5", "-", "1", "0", "-", "2", "4" >>, << "B", "e", "r", "l", "i", "n" >>)

RerunDate == << "2", "0", "2", "5", "-", "1", "0", "-", "2", "4" >>

InitRerun ==
  /\ pc = "idle"
  /\ SETLISTFM_API_KEY = << >>
  /\ argv_dates = << >>
  /\ folder = FolderName
  /\ parent = {FolderName}
  /\ src \in SourceTexts
  /\ via = "tag"
  /\ path \in { InputName(src, via, o) : o \in OtherStems }
  /\ fs = [ n \in {path} |-> AudioFile(<< TextOf(src) >>, "ok") ]
  /\ date_list = << RerunDate >>
  /\ locations = << >>
  /\ setlists_per_date = << >>
  /\ album_name = RerunAlbum
  /\ confirm = << >>
  /\ files = << >>
  /\ cumulative = << >>
  /\ i = 0
  /\ err = ""
  /\ last = NoCall
  /\ ops = 0
  /\ fs0 = fs
  /\ parent0 = parent
  /\ texts = << >>
  /\ resolved = [no |-> None, title |-> << >>]
  /\ applied = 0
  /\ first_run = NoLeft

LeftBy(r) ==
  [end |-> r.end, name |-> r.name, title |-> r.dir[r.name].tags.title,
   tracknumber |-> r.dir[r.name].tags.tracknumber]

ApplyWith(r) ==
  /\ fs' = r.dir
  /\ path' = r.name
  /\ ops' = ops + r.saves + r.renames
  /\ first_run' = IF applied = 0 THEN LeftBy(r) ELSE first_run
  /\ applied' = applied + 1

Apply ==
  /\ applied < 2
  /\ ApplyWith(tag_with_mutagen(fs, path, album_name, date_list[1], 1))
  /\ UNCHANGED << pc, SETLISTFM_API_KEY, argv_dates, folder, parent, date_list, locations,
                  setlists_per_date, album_name, confirm, files, cumulative, i, err, last,
                  fs0, parent0, texts, src, via, resolved >>

SpecRerun == InitRerun /\ [][Apply]_vars

(***************************************************************************)
(* Properties                                                              *)
(***************************************************************************)
Untouched0 == fs = fs0 /\ parent = parent0 /\ folder = FolderName /\ ops = 0

\* C1: nothing is written or renamed unless the prompt's answer, trimmed and
\* lower-cased, is "y"; a run that was declined ends with the folder, every
\* file's tags and every name as the run found them.
NoChangeUnlessConfirmed ==
  /\ ~Untouched0 => confirm = << "y" >>
  /\ pc = "aborted" => confirm # << "y" >> /\ Untouched0

\* a run over a folder with a taggable file, declined with "yes"
DeclinedRun ==
  /\ pc = "aborted"
  /\ confirm = << "y", "e", "s" >>
  /\ \E n \in DOMAIN fs : fs[n].kind = "file" /\ fs[n].io = "ok" /\ fs[n].tags.title # << >>

Hyphens(d) == Cardinality({ k \in 1..Len(d) : d[k] = "-" })

\* C8: a missing API key, or a date argument that is not three hyphen-separated
\* parts, in any position, ends the run with nothing tagged or renamed:
\* whenever anything has been touched, the key is set and every date has three
\* parts.
AbortsBeforeTouching ==
  /\ err \in {"RuntimeError: api key", "ValueError: date"} => pc = "crashed" /\ Untouched0
  /\ ~Untouched0 => /\ SETLISTFM_API_KEY # << >>
                    /\ \A k \in 1..Len(date_list) : Hyphens(date_list[k]) = 2

\* the second date is the malformed one: the first was fetched, then the run ended
SecondDateMalformed ==
  /\ pc = "crashed"
  /\ err = "ValueError: date"
  /\ Len(locations) = 1
  /\ Hyphens(date_list[1]) = 2
  /\ \E n \in DOMAIN fs : fs[n].kind = "file" /\ fs[n].io = "ok"

RECURSIVE SumLengths(_, _)
SumLengths(setlists, k) == IF k = 0 THEN 0 ELSE SumLengths(setlists, k - 1) + Len(setlists[k])

\* the smallest disc k with idx < L1 + ... + Lk, the last disc when there is none
ExpectedDisc(idx) ==
  LET n  == Len(setlists_per_date)
      ks == { k \in 1..n : idx < SumLengths(setlists_per_date, k) }
  IN  IF ks = {} THEN n ELSE CHOOSE k \in ks : \A q \in ks : k <= q

\* C5: when the setlist lengths are not all zero, the file at position idx of
\* the sorted listing is handed the smallest disc whose cumulative length
\* exceeds idx, or the last disc, with that disc's date, and a file that gets
\* tagged carries that disc number and date.
DiscMapping ==
  (last.end # "none" /\ SumLengths(setlists_per_date, Len(setlists_per_date)) > 0) =>
    /\ last.path = Sorted({ n \in DOMAIN fs0 : fs0[n].kind = "file" })[last.idx + 1]
    /\ last.disc_number = ExpectedDisc(last.idx)
    /\ last.disc_date = date_list[ExpectedDisc(last.idx)]
    /\ last.end = "tagged" =>
         /\ fs[last.name].tags.discnumber = << ToStr(ExpectedDisc(last.idx)) >>
         /\ fs[last.name].tags.date = << date_list[ExpectedDisc(last.idx)] >>

\* a file past every boundary was tagged with the last of two discs, after a
\* file on the first disc
OverflowOnLastDisc ==
  /\ last.end = "tagged"
  /\ Len(setlists_per_date) = 2
  /\ Len(setlists_per_date[1]) > 0
  /\ last.idx >= SumLengths(setlists_per_date, 2)
  /\ last.disc_number = 2
  /\ fs[last.name].tags.discnumber = << "2" >>

\* C7: no rename overwrites: the folder and its parent keep their number of
\* entries, a file is renamed only to a name no entry had, the folder only to
\* a name its parent did not hold, and a file whose target is taken keeps its
\* name.
NeverOverwrites ==
  /\ Cardinality(DOMAIN fs) = Cardinality(DOMAIN fs0)
  /\ Cardinality(parent) = Cardinality(parent0)
  /\ ~last.clobbered
  /\ folder # FolderName => folder \notin parent0
  /\ last.kept => last.name = last.path /\ last.path \in DOMAIN fs /\ last.target \in DOMAIN fs

\* two files resolved to one target name: the later one kept its own name
SecondKeepsItsName ==
  /\ pc = "done"
  /\ last.kept
  /\ fs[last.target].kind = "file"
  /\ fs[last.target].tags.title = fs[last.path].tags.title

\* C6 (as claimed): a file that fails to load does not end the run
ClaimC6 == last.end = "load_error" => pc # "crashed"

\* C4 (as claimed): cleaning a cleaned text changes nothing
ClaimC4 == Len(texts) = 3 => texts[3] = texts[2]

IsNumbered(x) == x.digits # << >> /\ x.sep # << >> /\ x.rest # << >>

\* C2 (as claimed): a source text of digits, separators and a remainder
\* resolves to the number the digits spell and to the trimmed remainder
ClaimC2 ==
  (applied = 1 /\ IsNumbered(src)) =>
    /\ resolved.no = << ToInt(src.digits) >>
    /\ resolved.title = clean_live_in(src.rest)

Left == [end |-> "tagged", name |-> path, title |-> fs[path].tags.title,
         tracknumber |-> fs[path].tags.tracknumber]

\* C3 (as claimed): the step applied again to a file it tagged leaves the
\* file's name, title tag and track-number tag as the first application did
ClaimC3 == (applied = 2 /\ first_run.end = "tagged") => Left = first_run

StemIsSource == applied = 1 /\ via # "tag"

CleanedStem == clean_live_in(TextOf(src))

\* C9 (as claimed): with the stem as the source and no numeric prefix on it,
\* the resolver gives no track number and the cleaned stem
ClaimC9 ==
  (StemIsSource /\ parse_track_from_title(CleanedStem).no = None) =>
    resolved = [no |-> None, title |-> CleanedStem]

\* C9 (amended): with the stem as the source and no numeric prefix on it, the
\* fallback still applies: when the cleaned stem holds " - " and what follows
\* the last one parses to a number, that number and title are returned;
\* otherwise no track number and the cleaned stem.
FallbackAlsoFromStem ==
  (StemIsSource /\ parse_track_from_title(CleanedStem).no = None) =>
    /\ resolved.no = None => resolved.title = CleanedStem
    /\ resolved.no # None =>
         /\ ContainsDash(CleanedStem)
         /\ resolved = parse_track_from_title(AfterLastDash(CleanedStem))
    /\ (ContainsDash(CleanedStem)
          /\ parse_track_from_title(AfterLastDash(CleanedStem)).no # None) => resolved.no # None

\* the stem "Set1 - 07 Ext" with no title tag resolves to (7, "Ext")
StemFallbackTaken ==
  /\ applied = 1
  /\ via = "stem"
  /\ TextOf(src) = << "S", "e", "t", "1", " ", "-", " ", "0", "7", " ", "E", "x", "t" >>
  /\ resolved = [no |-> << 7 >>, title |-> << "E", "x", "t" >>]

DigitsOnly(x) == x.digits # << >> /\ x.sep = << >> /\ x.rest = << >>

\* C10 (as claimed): a source of digits only resolves to the empty title
ClaimC10 == (applied = 1 /\ DigitsOnly(src)) => resolved.title = << >>

\* C10 (amended): a source of digits only resolves to no track number and the
\* digit string itself as title, never to the empty title, unless the title
\* tag was the source and the fallback found a number after the last " - "
\* of the file's stem.
DigitsOnlyKeepsDigits ==
  (applied = 1 /\ DigitsOnly(src)) =>
    /\ resolved.title # << >>
    /\ resolved.no = None => resolved.title = src.digits
    /\ resolved.no # None => via = "tag" /\ ContainsDash(Stem(path))

\* the title tag "1999" on random_name.flac resolves to (None, "1999")
DigitsOnlyResolved ==
  /\ applied = 1
  /\ via = "tag"
  /\ src.digits = << "1", "9", "9", "9" >>
  /\ DigitsOnly(src)
  /\ ~ContainsDash(Stem(path))
  /\ resolved = [no |-> None, title |-> << "1", "9", "9", "9" >>]

=============================================================================
